---- MODULE Spec2Model ----
(***************************************************************************)
(* Model of LTSpiceDataAnalyzer.parse_data_file (src/main.py) and of the   *)
(* helpers it calls.  Text is a sequence of one-character strings; the     *)
(* degree glyph of cp1252 is the character "deg".  An unset label (None)   *)
(* is <<>> and a set one <<text>>; an unset list or dict is the empty one; *)
(* a float is an exact decimal <<mantissa, fraction digits>> with no       *)
(* trailing fraction zero.                                                 *)
(***************************************************************************)
EXTENDS Integers, Sequences, FiniteSets, TLC

VARIABLES
    file_type,            \* self.file_type
    probe_points,         \* self.probe_points
    label,                \* self.param_step_info.label (instance attribute)
    StepInfo_values,      \* StepInfo.values, the dict object of the class body
    data,                 \* self.data
    current_step_number,  \* local of the two line loops
    pc,                   \* "idle", "lines" (inside a line loop), "done"
    result,               \* how the last call ended: "ok" or the exception
    handle,               \* the file object: "none", "open", "closed"
    header,               \* the first line the call read
    consumed,             \* the lines the line loop has read so far
    calls                 \* parse_data_file calls started so far

vars == <<file_type, probe_points, label, StepInfo_values, data,
          current_step_number, pc, result, handle, header, consumed, calls>>

MaxLines == 3
MaxCalls == 2

----------------------------------------------------------------------------
(* Text helpers: Python's str operations on character sequences.           *)

Whitespace == {" ", "\t", "\n", "\r"}
Digits == {"0", "1", "2", "3", "4", "5", "6", "7", "8", "9"}

MinOf(S) == CHOOSE x \in S : \A y \in S : x <= y
MaxOf(S) == CHOOSE x \in S : \A y \in S : y <= x
Range(s) == {s[i] : i \in 1..Len(s)}

\* the least j >= i with s[j] in C, or 0
IndexFrom(s, i, C) ==
    LET J == {j \in i..Len(s) : s[j] \in C}
    IN  IF J = {} THEN 0 ELSE MinOf(J)

\* the least j >= i with s[j] not in C, or Len(s)+1
SkipFrom(s, i, C) ==
    LET J == {j \in i..Len(s) : s[j] \notin C}
    IN  IF J = {} THEN Len(s) + 1 ELSE MinOf(J)

HasAt(s, i, lit) ==
    /\ i >= 1
    /\ i + Len(lit) - 1 <= Len(s)
    /\ \A k \in 1..Len(lit) : s[i + k - 1] = lit[k]

\* lit in s
Contains(s, lit) == \E i \in 1..(Len(s) + 1) : HasAt(s, i, lit)

\* s.split('\t')
RECURSIVE Split(_)
Split(s) ==
    LET t == IndexFrom(s, 1, {"\t"})
    IN  IF t = 0 THEN <<s>>
        ELSE <<SubSeq(s, 1, t - 1)>> \o Split(SubSeq(s, t + 1, Len(s)))

\* s.rstrip()
RStrip(s) ==
    LET J == {j \in 1..Len(s) : s[j] \notin Whitespace}
    IN  IF J = {} THEN <<>> ELSE SubSeq(s, 1, MaxOf(J))

Strip(s) ==
    LET J == {j \in 1..Len(s) : s[j] \notin Whitespace}
    IN  IF J = {} THEN <<>> ELSE SubSeq(s, MinOf(J), MaxOf(J))

DigitVal(c) ==
    CASE c = "0" -> 0 [] c = "1" -> 1 [] c = "2" -> 2 [] c = "3" -> 3
      [] c = "4" -> 4 [] c = "5" -> 5 [] c = "6" -> 6 [] c = "7" -> 7
      [] c = "8" -> 8 [] c = "9" -> 9

RECURSIVE NatVal(_)
NatVal(ds) ==
    IF ds = <<>> THEN 0
    ELSE 10 * NatVal(SubSeq(ds, 1, Len(ds) - 1)) + DigitVal(ds[Len(ds)])

Unsigned(s) == IF s # <<>> /\ s[1] \in {"+", "-"} THEN Tail(s) ELSE s
SignOf(s) == IF s # <<>> /\ s[1] = "-" THEN -1 ELSE 1

\* int(s): surrounding whitespace, a sign, decimal digits
ParseInt(s) ==
    LET u == Unsigned(Strip(s))
    IN  IF u # <<>> /\ \A i \in 1..Len(u) : u[i] \in Digits
        THEN [exc |-> "none", val |-> SignOf(Strip(s)) * NatVal(u)]
        ELSE [exc |-> "ValueError", val |-> 0]

RECURSIVE Normalise(_, _)
Normalise(m, f) ==
    IF f > 0 /\ m % 10 = 0 THEN Normalise(m \div 10, f - 1) ELSE <<m, f>>

\* float(s): surrounding whitespace, a sign, digits with at most one point.
\* Exponents, inf, nan and digit separators are not drawn by the inputs here.
ParseFloat(s) ==
    LET t == Strip(s)
        u == Unsigned(t)
        dots == {i \in 1..Len(u) : u[i] = "."}
        ds == SelectSeq(u, LAMBDA c : c # ".")
        ok == /\ Cardinality(dots) <= 1
              /\ ds # <<>>
              /\ \A i \in 1..Len(ds) : ds[i] \in Digits
        frac == IF dots = {} THEN 0 ELSE Len(u) - MinOf(dots)
    IN  IF ok
        THEN [exc |-> "none", val |-> Normalise(SignOf(t) * NatVal(ds), frac)]
        ELSE [exc |-> "ValueError", val |-> <<0, 0>>]

----------------------------------------------------------------------------
(* The literals of the source.                                             *)

TokFreq == <<"F", "r", "e", "q", ".">>
TokTime == <<"t", "i", "m", "e">>
Marker == <<"S", "t", "e", "p", " ", "I", "n", "f", "o", "r", "m", "a", "t",
            "i", "o", "n", ":">>
LitRun == <<"R", "u", "n", ":", " ">>

----------------------------------------------------------------------------
(* Header line, lines 81-91.                                               *)

\* a plausible slip: the two tests in the other order
ClassifyTimeFirst(first) ==
    IF Contains(first, TokTime) THEN "TRANSIENT"
    ELSE IF Contains(first, TokFreq) THEN "AC_FREQUENCY_PHASE"
    ELSE "INVALID"

Classify(first) ==
    IF Contains(first, TokFreq) THEN "AC_FREQUENCY_PHASE"
    ELSE IF Contains(first, TokTime) THEN "TRANSIENT"
    ELSE "INVALID"

HeaderProbes(line) ==
    LET f == Split(line)
    IN  [i \in 1..(Len(f) - 1) |-> RStrip(f[i + 1])]

----------------------------------------------------------------------------
(* _parse_parameter_step, lines 139-152.                                   *)

\* re.match of line 140: the four groups, or <<>> for None
StepMatch(line) ==
    LET p0 == Len(Marker) + 2
        e == IndexFrom(line, p0, {"="})
        m == SkipFrom(line, e + 1, {c \in Range(line) : c \notin {"(", " "}})
        TailAt(q) ==
            LET s == IndexFrom(line, q + Len(LitRun), {"/"})
                c == IF s = 0 THEN 0 ELSE IndexFrom(line, s + 1, {")"})
            IN  IF HasAt(line, q, LitRun) /\ s # 0 /\ c # 0
                THEN <<SubSeq(line, q + Len(LitRun), s - 1),
                       SubSeq(line, s + 1, c - 1)>>
                ELSE <<>>
        Cands == {p \in (e + 1)..m :
                     TailAt(SkipFrom(line, p, {" ", "("})) # <<>>}
    IN  IF ~HasAt(line, 1, Marker \o <<" ">>) \/ e = 0 \/ Cands = {}
        THEN <<>>
        ELSE LET p == MaxOf(Cands)
                 t == TailAt(SkipFrom(line, p, {" ", "("}))
             IN  <<SubSeq(line, p0, e - 1), SubSeq(line, e + 1, p - 1),
                   t[1], t[2]>>

\* the outcome of the call: the exception raised ("none": it returned), what
\* it stored before that, and the step number it returns
ParseParameterStep(line) ==
    LET m == StepMatch(line)
    IN  IF m = <<>>
        THEN [exc |-> "AttributeError", setsLabel |-> FALSE,
              setsValue |-> FALSE, label |-> <<>>, value |-> <<>>, run |-> 0]
        ELSE IF ParseInt(m[3]).exc # "none"
        THEN [exc |-> "ValueError", setsLabel |-> TRUE,
              setsValue |-> FALSE, label |-> m[1], value |-> <<>>, run |-> 0]
        ELSE [exc |-> "none", setsLabel |-> TRUE, setsValue |-> TRUE,
              label |-> m[1], value |-> RStrip(m[2]),
              run |-> ParseInt(m[3]).val]

----------------------------------------------------------------------------
(* The record decoders, lines 109-117 and 127-137.                         *)

\* re.match of line 109: the three groups, or <<>> for None
FreqMatch(line) ==
    LET t == IndexFrom(line, 1, {"\t"})
        d == IF t = 0 THEN 0 ELSE IndexFrom(line, t + 2, {"d", "B"})
        g == IF d = 0 THEN 0 ELSE IndexFrom(line, d + 3, {"deg"})
    IN  IF /\ t # 0
           /\ HasAt(line, t + 1, <<"(">>)
           /\ d # 0
           /\ HasAt(line, d, <<"d", "B", ",">>)
           /\ g # 0
           /\ HasAt(line, g, <<"deg", ")">>)
        THEN <<SubSeq(line, 1, t - 1), SubSeq(line, t + 2, d - 1),
               SubSeq(line, d + 3, g - 1)>>
        ELSE <<>>

NoRecord == [time |-> <<0, 0>>, output |-> <<>>]

DecodeFreq(line) ==
    LET m == FreqMatch(line)
    IN  IF m = <<>>
        THEN [exc |-> "AttributeError", rec |-> NoRecord]
        ELSE IF \E i \in 1..3 : ParseFloat(m[i]).exc # "none"
        THEN [exc |-> "ValueError", rec |-> NoRecord]
        ELSE [exc |-> "none",
              rec |-> [frequency |-> ParseFloat(m[1]).val,
                       amplitude |-> ParseFloat(m[2]).val,
                       phase |-> ParseFloat(m[3]).val]]

\* a plausible slip: a list of pairs instead of a dict
DictSetAppend(d, k, v) == Append(d, <<k, v>>)

\* d[k] = v on an insertion-ordered dict, kept as a sequence of <<key, value>>
DictSet(d, k, v) ==
    IF \E i \in 1..Len(d) : d[i][1] = k
    THEN [i \in 1..Len(d) |-> IF d[i][1] = k THEN <<k, v>> ELSE d[i]]
    ELSE Append(d, <<k, v>>)

\* data['output'] after the first n rounds of the loop of lines 135-136
RECURSIVE FillOutput(_, _, _)
FillOutput(probes, m, n) ==
    IF n = 0 THEN <<>>
    ELSE DictSet(FillOutput(probes, m, n - 1), probes[n],
                 ParseFloat(m[n + 1]).val)

DecodeTransient(line, probes) ==
    LET m == Split(line)
    IN  IF Len(m) # Len(probes) + 1
        THEN [exc |-> "InvalidDataException", rec |-> NoRecord]
        ELSE IF \E i \in 1..Len(m) : ParseFloat(m[i]).exc # "none"
        THEN [exc |-> "ValueError", rec |-> NoRecord]
        ELSE [exc |-> "none",
              rec |-> [time |-> ParseFloat(m[1]).val,
                       output |-> FillOutput(probes, m, Len(probes))]]

Decode(line, kind, probes) ==
    IF kind = "AC_FREQUENCY_PHASE" THEN DecodeFreq(line)
    ELSE DecodeTransient(line, probes)

----------------------------------------------------------------------------
(* The inputs: first lines and later lines of an export, as the file       *)
(* object yields them (the line end included).                             *)

\* time\tV\n
HdrTransient ==
    <<"t", "i", "m", "e", "\t", "V", "\n">>

\* time\tV\tI\n
HdrTransientTwo ==
    <<"t", "i", "m", "e", "\t", "V", "\t", "I", "\n">>

\* time\tV\tV\n
HdrTransientDup ==
    <<"t", "i", "m", "e", "\t", "V", "\t", "V", "\n">>

\* Freq.\tV\n
HdrFreq ==
    <<"F", "r", "e", "q", ".", "\t", "V", "\n">>

\* Freq.time\tV\n
HdrBoth ==
    <<"F", "r", "e", "q", ".", "t", "i", "m", "e", "\t", "V", "\n">>

\* Time\tV\n
HdrUpper ==
    <<"T", "i", "m", "e", "\t", "V", "\n">>

\* Freq\ttime\n
HdrSecondField ==
    <<"F", "r", "e", "q", "\t", "t", "i", "m", "e", "\n">>

\* 0\t1.5\n
LnT1 ==
    <<"0", "\t", "1", ".", "5", "\n">>

\* 1\t2\t3.50\n
LnT2 ==
    <<"1", "\t", "2", "\t", "3", ".", "5", "0", "\n">>

\* x\t1\n
LnTBadNum ==
    <<"x", "\t", "1", "\n">>

\* 100\t(-3.0dB,-45<deg>)\n
LnF1 ==
    <<"1", "0", "0", "\t", "(", "-", "3", ".", "0", "d", "B", ",", "-",
      "4", "5", "deg", ")", "\n">>

\* 100\t(-3dB,45)\n
LnFBadShape ==
    <<"1", "0", "0", "\t", "(", "-", "3", "d", "B", ",", "4", "5", ")", "\n">>

\* 1k\t(1dB,2<deg>)\n
LnFBadNum ==
    <<"1", "k", "\t", "(", "1", "d", "B", ",", "2", "deg", ")", "\n">>

\* Step Information: R=1k  (Run: 1/3)\n
LnS1 ==
    <<"S", "t", "e", "p", " ", "I", "n", "f", "o", "r", "m", "a", "t", "i",
      "o", "n", ":", " ", "R", "=", "1", "k", " ", " ", "(", "R", "u", "n",
      ":", " ", "1", "/", "3", ")", "\n">>

\* Step Information: R=2k  (Run: 2/3)\n
LnS2 ==
    <<"S", "t", "e", "p", " ", "I", "n", "f", "o", "r", "m", "a", "t", "i",
      "o", "n", ":", " ", "R", "=", "2", "k", " ", " ", "(", "R", "u", "n",
      ":", " ", "2", "/", "3", ")", "\n">>

\* Step Information: C=5  (Run: 0/3)\n
LnS0 ==
    <<"S", "t", "e", "p", " ", "I", "n", "f", "o", "r", "m", "a", "t", "i",
      "o", "n", ":", " ", "C", "=", "5", " ", " ", "(", "R", "u", "n", ":",
      " ", "0", "/", "3", ")", "\n">>

\* Step Information: R=1k\n
LnSBadShape ==
    <<"S", "t", "e", "p", " ", "I", "n", "f", "o", "r", "m", "a", "t", "i",
      "o", "n", ":", " ", "R", "=", "1", "k", "\n">>

\* Step Information: R=1k  (Run: x/3)\n
LnSBadRun ==
    <<"S", "t", "e", "p", " ", "I", "n", "f", "o", "r", "m", "a", "t", "i",
      "o", "n", ":", " ", "R", "=", "1", "k", " ", " ", "(", "R", "u", "n",
      ":", " ", "x", "/", "3", ")", "\n">>

\* an empty file: readline() returns the empty string
HdrEmpty == <<>>

Headers ==
    {HdrTransient, HdrTransientTwo, HdrTransientDup, HdrFreq, HdrBoth,
     HdrUpper, HdrSecondField, HdrEmpty}

BodyLines ==
    {LnT1, LnT2, LnTBadNum, LnF1, LnFBadShape, LnFBadNum,
     LnS1, LnS2, LnS0, LnSBadShape, LnSBadRun}

----------------------------------------------------------------------------
(* Dict operations on self.data and StepInfo.values.                       *)

\* d[k] = v
Put(d, k, v) == [x \in DOMAIN d \cup {k} |-> IF x = k THEN v ELSE d[x]]

\* a plausible slip: keep the list a step already has
OpenStepKeep(d, k) == IF k \in DOMAIN d THEN d ELSE Put(d, k, <<>>)

\* self.data[current_step_number] = [], lines 103, 107, 121, 125
OpenStep(d, k) == Put(d, k, <<>>)

\* a plausible slip: every record under step 0
AppendRecordZero(d, k, rec) == [d EXCEPT ![0] = Append(@, rec)]

\* self.data[current_step_number].append(...), lines 113, 137
AppendRecord(d, k, rec) == [d EXCEPT ![k] = Append(@, rec)]

----------------------------------------------------------------------------
(* The analyzer.                                                           *)

\* __init__, lines 43-50, and the class body of StepInfo, lines 39-41
Init ==
    /\ file_type = "None"
    /\ probe_points = <<>>
    /\ label = <<>>
    /\ StepInfo_values = <<>>
    /\ data = <<>>
    /\ current_step_number = 0
    /\ pc = "idle"
    /\ result = "none"
    /\ handle = "none"
    /\ header = <<>>
    /\ consumed = <<>>
    /\ calls = 0

CanCall == pc \in {"idle", "done"} /\ calls < MaxCalls

\* parse_data_file, lines 71-78, when open() raises IOError
ParseOpenFail ==
    /\ CanCall
    /\ file_type' = "INVALID"
    /\ probe_points' = <<>>
    /\ label' = <<>>
    /\ data' = <<>>
    /\ current_step_number' = 0
    /\ pc' = "done"
    /\ result' = "InvalidFileException"
    /\ handle' = "none"
    /\ header' = <<>>
    /\ consumed' = <<>>
    /\ calls' = calls + 1
    /\ UNCHANGED StepInfo_values

\* parse_data_file, lines 71-99, up to the first round of the line loop
ParseHeader(h) ==
    LET kind == Classify(Split(h)[1])
    IN  /\ CanCall
        /\ file_type' = kind
        /\ probe_points' = HeaderProbes(h)
        /\ label' = <<>>
        /\ current_step_number' = 0
        /\ header' = h
        /\ consumed' = <<>>
        /\ calls' = calls + 1
        /\ UNCHANGED StepInfo_values
        /\ IF kind = "INVALID"
           THEN /\ data' = <<>>
                /\ handle' = "closed"
                /\ pc' = "done"
                /\ result' = "ok"
           ELSE /\ data' = OpenStep(<<>>, 0)
                /\ handle' = "open"
                /\ pc' = "lines"
                /\ result' = "none"

CanRead == pc = "lines" /\ Len(consumed) < MaxLines

\* one round of either line loop on a step line, lines 105-108 and 123-126
StepLine(l) ==
    LET r == ParseParameterStep(l)
    IN  /\ CanRead
        /\ Contains(l, Marker)
        /\ consumed' = Append(consumed, l)
        /\ label' = IF r.setsLabel THEN <<r.label>> ELSE label
        /\ StepInfo_values' = IF r.setsValue
                              THEN Put(StepInfo_values, r.run, r.value)
                              ELSE StepInfo_values
        /\ IF r.exc = "none"
           THEN /\ current_step_number' = r.run
                /\ data' = OpenStep(data, r.run)
                /\ UNCHANGED <<pc, result>>
           ELSE /\ pc' = "done"
                /\ result' = r.exc
                /\ UNCHANGED <<current_step_number, data>>
        /\ UNCHANGED <<file_type, probe_points, handle, header, calls>>

\* one round of either line loop on a data line, lines 109-117 and 127-137
DataLine(l) ==
    LET r == Decode(l, file_type, probe_points)
    IN  /\ CanRead
        /\ ~Contains(l, Marker)
        /\ consumed' = Append(consumed, l)
        /\ IF r.exc = "none"
           THEN /\ data' = AppendRecord(data, current_step_number, r.rec)
                /\ UNCHANGED <<pc, result>>
           ELSE /\ pc' = "done"
                /\ result' = r.exc
                /\ UNCHANGED data
        /\ UNCHANGED <<file_type, probe_points, label, StepInfo_values,
                       current_step_number, handle, header, calls>>

\* the line loop finds the end of the file; file.close(), line 99
EndOfInput ==
    /\ pc = "lines"
    /\ handle' = "closed"
    /\ pc' = "done"
    /\ result' = "ok"
    /\ UNCHANGED <<file_type, probe_points, label, StepInfo_values, data,
                   current_step_number, header, consumed, calls>>

\* another LTSpiceDataAnalyzer() takes the place of this one, lines 43-50
NewAnalyzer ==
    /\ pc = "done"
    /\ file_type' = "None"
    /\ probe_points' = <<>>
    /\ label' = <<>>
    /\ data' = <<>>
    /\ current_step_number' = 0
    /\ pc' = "idle"
    /\ result' = "none"
    /\ handle' = "none"
    /\ header' = <<>>
    /\ consumed' = <<>>
    /\ UNCHANGED <<StepInfo_values, calls>>

Next ==
    \/ ParseOpenFail
    \/ \E h \in Headers : ParseHeader(h)
    \/ \E l \in BodyLines : StepLine(l)
    \/ \E l \in BodyLines : DataLine(l)
    \/ EndOfInput
    \/ NewAnalyzer

Spec == Init /\ [][Next]_vars

----------------------------------------------------------------------------
(* What the input says, read off the lines consumed.                       *)

LineFailures == {"InvalidDataException", "AttributeError", "ValueError"}
Parsing == /\ pc \in {"lines", "done"}
           /\ result \in {"none", "ok"}
           /\ file_type \in {"TRANSIENT", "AC_FREQUENCY_PHASE"}
ParsedOk == pc = "done" /\ result = "ok"
FailedOnLine == pc = "done" /\ result \in LineFailures

\* the lines the loop accepted: all but the one it failed on
Accepted ==
    IF result \in LineFailures THEN SubSeq(consumed, 1, Len(consumed) - 1)
    ELSE consumed

IsStep(l) == Contains(l, Marker)
RunOf(l) == ParseParameterStep(l).run
RecordOf(l) == Decode(l, file_type, probe_points).rec
StepPositions(lines, k) ==
    {i \in 1..Len(lines) : IsStep(lines[i]) /\ RunOf(lines[i]) = k}
StepRuns(lines) == {RunOf(lines[i]) : i \in {j \in 1..Len(lines) : IsStep(lines[j])}}

\* the run index of the last step line, or 0
StepInForce(lines) ==
    LET S == {i \in 1..Len(lines) : IsStep(lines[i])}
    IN  IF S = {} THEN 0 ELSE RunOf(lines[MaxOf(S)])

\* the records of the data lines that stand under step k, in line order
RECURSIVE RecordsUnder(_, _, _)
RecordsUnder(lines, cur, k) ==
    IF lines = <<>> THEN <<>>
    ELSE IF IsStep(Head(lines))
    THEN RecordsUnder(Tail(lines), RunOf(Head(lines)), k)
    ELSE (IF cur = k THEN <<RecordOf(Head(lines))>> ELSE <<>>)
         \o RecordsUnder(Tail(lines), cur, k)

\* the records under step k that come after the last step line for k
RecordsSinceOpen(lines, k) ==
    LET S == StepPositions(lines, k)
    IN  IF S = {} THEN RecordsUnder(lines, 0, k)
        ELSE RecordsUnder(SubSeq(lines, MaxOf(S) + 1, Len(lines)), k, k)

IsSuffix(a, b) == /\ Len(a) <= Len(b)
                  /\ a = SubSeq(b, Len(b) - Len(a) + 1, Len(b))

Keys(d) == [i \in 1..Len(d) |-> d[i][1]]

\* the names of a list, each at its first place
RECURSIVE Distinct(_)
Distinct(ps) ==
    IF ps = <<>> THEN <<>>
    ELSE LET front == SubSeq(ps, 1, Len(ps) - 1)
             last == ps[Len(ps)]
         IN  IF \E j \in 1..Len(front) : front[j] = last
             THEN Distinct(front)
             ELSE Append(Distinct(front), last)

HeaderRead == pc \in {"lines", "done"} /\ handle # "none"
FirstField == Split(header)[1]

----------------------------------------------------------------------------
(* The claims.                                                             *)

\* C1 (as stated): a step line whose run index already has a sequence does
\* not clear it: at the end of a parse every step holds all the records of
\* the data lines that stand under it.
C1_RepeatedStepAccumulates ==
    (ParsedOk /\ file_type # "INVALID") =>
        \A k \in DOMAIN data : data[k] = RecordsUnder(consumed, 0, k)

\* C1 (amended): a step line opens an empty sequence for its run index, also
\* when that index has one: right after a step line its sequence is empty,
\* and at the end of a parse every step holds exactly the records that come
\* after the last step line for it (step 0 with no step line for it: the
\* records before the first step line).
C1_RepeatedStepClears ==
    /\ (Parsing /\ consumed # <<>> /\ IsStep(consumed[Len(consumed)])) =>
           data[RunOf(consumed[Len(consumed)])] = <<>>
    /\ (ParsedOk /\ file_type # "INVALID") =>
           \A k \in DOMAIN data : data[k] = RecordsSinceOpen(consumed, k)

\* a parse that ended well, with a step whose earlier records a repeated step
\* line dropped and whose later records are there
C1_Witness ==
    /\ ParsedOk
    /\ file_type # "INVALID"
    /\ \E k \in DOMAIN data :
          /\ data[k] # <<>>
          /\ Len(data[k]) < Len(RecordsUnder(consumed, 0, k))

\* C2: a parse that fails on a line, after a line was accepted, leaves no
\* record, step value, label or probe name on the analyzer.
C2_AllOrNothing ==
    (FailedOnLine /\ Len(consumed) >= 2) =>
        /\ \A k \in DOMAIN data : data[k] = <<>>
        /\ probe_points = <<>>
        /\ label = <<>>
        /\ StepRuns(Accepted) \cap DOMAIN StepInfo_values = {}

\* C3: after a call that parsed a recognised export to its end the model
\* holds only what that call's input produced; StepInfo.values has only the
\* run indices of its step lines.
C3_FreshModel ==
    (ParsedOk /\ file_type # "INVALID") =>
        /\ probe_points = HeaderProbes(header)
        /\ file_type = Classify(FirstField)
        /\ (StepRuns(consumed) = {}) => (label = <<>>)
        /\ \A k \in DOMAIN data : IsSuffix(data[k], RecordsUnder(consumed, 0, k))
        /\ DOMAIN StepInfo_values \subseteq StepRuns(consumed)

\* C4: a header whose first field has neither token makes the call raise, and
\* no call that returned leaves file_type INVALID.
C4_UnrecognizedSweepKindReported ==
    /\ (pc = "done" /\ handle # "none"
          /\ ~Contains(FirstField, TokFreq) /\ ~Contains(FirstField, TokTime))
        => result # "ok"
    /\ ParsedOk => file_type # "INVALID"

\* C5: a step line that does not match the shape, or whose run is no integer,
\* ends the parse with the analyzer's own invalid-data exception.
C5_InvalidStepHeader ==
    (pc = "done" /\ consumed # <<>> /\ IsStep(consumed[Len(consumed)])
       /\ ParseParameterStep(consumed[Len(consumed)]).exc # "none")
    => result = "InvalidDataException"

\* C6: a data line that does not decode under the sweep kind ends the parse
\* with the analyzer's own invalid-data exception and appends no record.
C6_InvalidDataFormat ==
    (pc = "done" /\ consumed # <<>> /\ ~IsStep(consumed[Len(consumed)])
       /\ Decode(consumed[Len(consumed)], file_type, probe_points).exc # "none")
    => /\ result = "InvalidDataException"
       /\ \A k \in DOMAIN data : data[k] = RecordsSinceOpen(Accepted, k)

\* C7 (as stated): every stored transient record has len(ProbeList) outputs,
\* their keys in insertion order being the ProbeList.
C7_OutputKeysAreProbeList ==
    (Parsing /\ file_type = "TRANSIENT") =>
        \A k \in DOMAIN data : \A i \in 1..Len(data[k]) :
            /\ Len(data[k][i].output) = Len(probe_points)
            /\ Keys(data[k][i].output) = probe_points

\* C7 (amended): every stored transient record has one output per distinct
\* probe name, the keys in insertion order being the names of the ProbeList
\* in order of first occurrence; that is the ProbeList itself, with
\* len(ProbeList) entries, when no name occurs twice.
C7_OutputKeysAreDistinctProbes ==
    (Parsing /\ file_type = "TRANSIENT") =>
        \A k \in DOMAIN data : \A i \in 1..Len(data[k]) :
            /\ Keys(data[k][i].output) = Distinct(probe_points)
            /\ (Distinct(probe_points) = probe_points) =>
                   /\ Len(data[k][i].output) = Len(probe_points)
                   /\ Keys(data[k][i].output) = probe_points

\* a record stored under a header that names one probe twice
C7_Witness ==
    /\ Parsing
    /\ file_type = "TRANSIENT"
    /\ Distinct(probe_points) # probe_points
    /\ \E k \in DOMAIN data : data[k] # <<>>

\* C8 (as stated): 'time' in the first field gives Transient, 'Freq.' gives
\* FrequencyResponse, neither gives Invalid.
C8_ClassifiedByEitherToken ==
    HeaderRead =>
        /\ Contains(FirstField, TokTime) => file_type = "TRANSIENT"
        /\ Contains(FirstField, TokFreq) => file_type = "AC_FREQUENCY_PHASE"
        /\ (~Contains(FirstField, TokTime) /\ ~Contains(FirstField, TokFreq))
               => file_type = "INVALID"

\* C8 (amended): 'Freq.' in the first field gives FrequencyResponse, also
\* when 'time' is in it too; 'time' without 'Freq.' gives Transient; neither
\* gives Invalid.
C8_ClassifiedFreqFirst ==
    HeaderRead =>
        /\ Contains(FirstField, TokFreq) => file_type = "AC_FREQUENCY_PHASE"
        /\ (Contains(FirstField, TokTime) /\ ~Contains(FirstField, TokFreq))
               => file_type = "TRANSIENT"
        /\ (~Contains(FirstField, TokTime) /\ ~Contains(FirstField, TokFreq))
               => file_type = "INVALID"

\* a header read whose first field has both tokens
C8_Witness ==
    /\ HeaderRead
    /\ Contains(FirstField, TokTime)
    /\ Contains(FirstField, TokFreq)
    /\ file_type = "AC_FREQUENCY_PHASE"

C9_AppendedUnderStepInForce ==
    (Parsing /\ consumed # <<>> /\ ~IsStep(consumed[Len(consumed)])) =>
        LET k == StepInForce(consumed)
        IN  /\ k \in DOMAIN data
            /\ data[k] # <<>>
            /\ data[k][Len(data[k])] = RecordOf(consumed[Len(consumed)])

C9_LineOrderKept ==
    Parsing =>
        \A k \in DOMAIN data : IsSuffix(data[k], RecordsUnder(consumed, 0, k))

C9_NoStepLine ==
    (Parsing /\ StepRuns(consumed) = {}) =>
        /\ DOMAIN data = {0}
        /\ data[0] = RecordsUnder(consumed, 0, 0)
        /\ label = <<>>

StepBeforeFirstRecord ==
    /\ consumed # <<>>
    /\ IsStep(consumed[1])
    /\ RunOf(consumed[1]) # 0

C10_HandleReleased ==
    (pc = "done" /\ handle # "none") => handle = "closed"

====
